---- MODULE Spec2Model ----
(***************************************************************************)
(* Model of lib/data.py: the Dataset loader built on the tensor            *)
(* framework's dataset and lookup-table primitives.                        *)
(*                                                                         *)
(* A Python str is modelled as the tuple of its characters, so that        *)
(* list(s) of a str s is the list of its one-character strs, as in Python. *)
(* A Python value is a record tagged with its type.                        *)
(***************************************************************************)
EXTENDS Integers, Sequences, FiniteSets, TLC

VARIABLES
    fs,         \* the file system: vocabulary path -> lines of the file, or NoFile
    pc,         \* "new", "constructed", "raised", "called"; "table" for direct table calls
    args,       \* the arguments of the constructor call
    self,       \* the attributes of the Dataset object
    raised,     \* the exception that ended the constructor, or NoError
    built,      \* the files handed to _create_lookup_table by the constructor, in order
    dataset,    \* the pipeline __call__ returned: the stages in the order applied
    srcCount,   \* number of zipped elements read from the two line streams
    exhausted,  \* one of the two line streams has ended
    shuffleBuf, \* the shuffle stage's buffer
    batchAcc,   \* elements gathered for the batch being formed
    prefetchQ,  \* batches produced and not yet consumed
    delivered,  \* the batch the training loop received last, or NoBatch
    table,      \* result of a direct call of _create_lookup_table
    tableArg,   \* the arguments of that call
    lookedUp    \* the last lookup made on table: [key, id], or NoLookup

vars == <<fs, pc, args, self, raised, built, dataset, srcCount, exhausted,
          shuffleBuf, batchAcc, prefetchQ, delivered, table, tableArg, lookedUp>>

ctorVars == <<args, self, raised, built>>
iterVars == <<srcCount, exhausted, shuffleBuf, batchAcc, prefetchQ, delivered>>
tableVars == <<table, tableArg, lookedUp>>

-----------------------------------------------------------------------------
(* Bounds of the model *)

MaxLines == 3      \* lines read from the zipped text/target streams
MaxVocab == 2      \* lines of a vocabulary file
MaxOov == 3        \* largest num_oov_buckets a caller passes

(* Program constants *)

DefaultBatchSize == 16
DefaultBufferSize == 239
DefaultSeed == 1997
DefaultThreads == 4
DefaultPrefetch == 1
DefaultNumOovBuckets == 1
TableNumOovBuckets == 1
BufferFactor == 3
PaddingValue == 0

-----------------------------------------------------------------------------
(* Python values *)

Omitted == [t |-> "omitted"]
None == [t |-> "none"]
Unset == [t |-> "unset"]
PyInt(n) == [t |-> "int", v |-> n]
PyBool(b) == [t |-> "bool", v |-> b]
PyStr(s) == [t |-> "str", v |-> s]
PyList(l) == [t |-> "list", v |-> l]

\* isinstance(x, str), type(x) == str
IsStr(x) == x.t = "str"

\* list(s) for a str s: the list of its characters, each a str of length one
ListOfStr(s) == PyList([i \in 1..Len(s.v) |-> PyStr(<<s.v[i]>>)])

\* truth value of an argument: None and 0 are false
Truthy(x) ==
    CASE x.t = "none" -> FALSE
      [] x.t = "int" -> x.v # 0
      [] x.t = "bool" -> x.v
      [] x.t \in {"str", "list"} -> Len(x.v) > 0
      [] OTHER -> TRUE

\* a parameter's value: the default when the caller passes nothing
Bind(x, default) == IF x = Omitted THEN default ELSE x

NoError == [type |-> "none", msg |-> ""]
Error(type, msg) == [type |-> type, msg |-> msg]

-----------------------------------------------------------------------------
(* The framework's lookup table *)

\* a file of the file system: its lines, or no such file
File(lines) == [exists |-> TRUE, lines |-> lines]
NoFile == [exists |-> FALSE, lines |-> <<>>]
NoTable == [entries |-> <<>>, num_oov |-> 0]

Words == {<<"x">>, <<"y">>}

RECURSIVE SeqsUpTo(_, _)
SeqsUpTo(S, n) ==
    IF n = 0 THEN {<<>>}
    ELSE LET shorter == SeqsUpTo(S, n - 1)
         IN shorter \cup {Append(s, x) : s \in {q \in shorter : Len(q) = n - 1}, x \in S}

VocabContents == {c \in SeqsUpTo(Words, MaxVocab) : Len(c) >= 1}

WordPath == PyStr(<<"w">>)
TagPath == PyStr(<<"t", "g">>)
VocabPaths == {WordPath, TagPath}

FileSystems == [VocabPaths -> {File(c) : c \in VocabContents} \cup {NoFile}]

\* TextFileInitializer on a file whose whole line is the key and whose line
\* number is the value: the table cannot be initialised from a missing file,
\* nor from one that gives one key two values.
Loadable(file) ==
    /\ file.exists
    /\ \A i, j \in 1..Len(file.lines) : file.lines[i] = file.lines[j] => i = j

\* stand-in for the framework's string fingerprint
CharCode(c) ==
    CASE c = "x" -> 120 [] c = "y" -> 121 [] c = "z" -> 122 [] c = " " -> 32
      [] OTHER -> 63

RECURSIVE Fingerprint(_)
Fingerprint(s) ==
    IF s = <<>> THEN 7 ELSE (31 * Fingerprint(Tail(s)) + CharCode(Head(s))) % 65536

\* TextFileInitializer(file, key_index, value_index): one (key, value) entry
\* per line; WHOLE_LINE is the line's content, LINE_NUMBER its 0-based number
Column(lines, i, index) ==
    IF index = "WHOLE_LINE" THEN lines[i] ELSE i - 1

ColumnFrom1(lines, i, index) ==
    IF index = "WHOLE_LINE" THEN lines[i] ELSE i

TextFileInitializer(file, key_index, value_index) ==
    [i \in 1..Len(file.lines) |->
        [key |-> Column(file.lines, i, key_index),
         value |-> Column(file.lines, i, value_index)]]

TextFileInitializerFrom1(file, key_index, value_index) ==
    [i \in 1..Len(file.lines) |->
        [key |-> ColumnFrom1(file.lines, i, key_index),
         value |-> ColumnFrom1(file.lines, i, value_index)]]

\* StaticVocabularyTable(initializer, num_oov_buckets)
StaticVocabularyTable(initializer, num_oov) == [entries |-> initializer, num_oov |-> num_oov]

\* _create_lookup_table(file, num_oov_buckets): the table the method returns
CreateLookupTableLinesFrom1(file, num_oov_buckets) ==
    StaticVocabularyTable(TextFileInitializerFrom1(file, "WHOLE_LINE", "LINE_NUMBER"),
                          TableNumOovBuckets)

_create_lookup_table(file, num_oov_buckets) ==
    StaticVocabularyTable(TextFileInitializer(file, "WHOLE_LINE", "LINE_NUMBER"),
                          TableNumOovBuckets)

\* table.lookup(key): the value of the key's entry, or the table size plus the
\* key's hash bucket
TableSize(tbl) == Len(tbl.entries)

Lookup(tbl, key) ==
    IF \E i \in 1..Len(tbl.entries) : tbl.entries[i].key = key
    THEN tbl.entries[CHOOSE i \in 1..Len(tbl.entries) : tbl.entries[i].key = key].value
    ELSE TableSize(tbl) + (Fingerprint(key) % tbl.num_oov)

-----------------------------------------------------------------------------
(* Dataset.__init__ *)

NoArgs == [texts |-> Unset, targets |-> Unset, word_table |-> Unset, tag_table |-> Unset,
           batch_size |-> Unset, shuffle |-> Unset, buffer_size |-> Unset, seed |-> Unset,
           threads |-> Unset, prefetch |-> Unset]

NoSelf == [texts |-> Unset, targets |-> Unset, batch_size |-> Unset, shuffle |-> Unset,
           seed |-> Unset, threads |-> Unset, prefetch |-> Unset,
           word_table |-> NoTable, tag_table |-> NoTable, buffer_size |-> Unset]

FileOf(f, path) == IF path \in DOMAIN f THEN f[path] ELSE NoFile

\* the statements of __init__ in order; the result is the object's attributes,
\* the exception raised (if any) and the files a table was built from
BufferSizeNoneOnly(buffer_size, batch_size) ==
    IF buffer_size = None THEN PyInt(batch_size.v * BufferFactor) ELSE buffer_size

BufferSize(buffer_size, batch_size) ==
    IF ~Truthy(buffer_size) THEN PyInt(batch_size.v * BufferFactor) ELSE buffer_size

Init__(a, f) ==
    LET batch_size == Bind(a.batch_size, PyInt(DefaultBatchSize))
        shuffle == Bind(a.shuffle, PyBool(TRUE))
        buffer_size == Bind(a.buffer_size, PyInt(DefaultBufferSize))
        seed == Bind(a.seed, PyInt(DefaultSeed))
        threads == Bind(a.threads, PyInt(DefaultThreads))
        prefetch == Bind(a.prefetch, PyInt(DefaultPrefetch))
        targets == IF IsStr(a.targets) THEN ListOfStr(a.targets) ELSE a.targets
        s1 == [NoSelf EXCEPT !.texts = a.texts, !.targets = targets,
                             !.batch_size = batch_size, !.shuffle = shuffle,
                             !.seed = seed, !.threads = threads, !.prefetch = prefetch]
        wfile == FileOf(f, a.word_table)
        s2 == [s1 EXCEPT !.word_table = _create_lookup_table(wfile, DefaultNumOovBuckets)]
        tfile == FileOf(f, a.tag_table)
        s3 == [s2 EXCEPT !.tag_table = _create_lookup_table(tfile, DefaultNumOovBuckets)]
        s4 == [s3 EXCEPT !.buffer_size = BufferSize(buffer_size, batch_size)]
    IN  IF IsStr(a.texts)
        THEN \* line 46: list(text), and no name text is bound
             [self |-> NoSelf, raised |-> Error("NameError", "name 'text' is not defined"),
              built |-> <<>>]
        ELSE IF ~IsStr(a.word_table)
        THEN [self |-> s1, raised |-> Error("AssertionError", "Word table must be string type"),
              built |-> <<>>]
        ELSE IF ~Loadable(wfile)
        THEN [self |-> s1, raised |-> Error("FrameworkError", "table initialisation"),
              built |-> <<a.word_table>>]
        ELSE IF ~IsStr(a.tag_table)
        THEN [self |-> s2, raised |-> Error("AssertionError", "Tag table must be string type"),
              built |-> <<a.word_table>>]
        ELSE IF ~Loadable(tfile)
        THEN [self |-> s2, raised |-> Error("FrameworkError", "table initialisation"),
              built |-> <<a.word_table, a.tag_table>>]
        ELSE [self |-> s4, raised |-> NoError, built |-> <<a.word_table, a.tag_table>>]

-----------------------------------------------------------------------------
(* Dataset._process and Dataset.__call__: the pipeline, as the stages applied *)

Stage(op, params) == [op |-> op, params |-> params]

ShuffleStage(s) ==
    IF Truthy(s.shuffle) THEN <<Stage("shuffle", <<s.buffer_size, s.seed>>)>> ELSE <<>>

BatchStage(s) ==
    <<Stage("padded_batch", <<s.batch_size, <<1, 2>>, <<PaddingValue, PaddingValue>>>>)>>

ProcessShuffleLast(s, texts, targets) ==
    <<texts, targets,
      Stage("map", <<"process_text", s.word_table, s.threads>>),
      Stage("map", <<"process_target", s.tag_table, s.threads>>),
      Stage("zip", <<>>)>>
    \o BatchStage(s)
    \o ShuffleStage(s)
    \o <<Stage("prefetch", <<s.prefetch>>)>>

_process(s, texts, targets) ==
    <<texts, targets,
      Stage("map", <<"process_text", s.word_table, s.threads>>),
      Stage("map", <<"process_target", s.tag_table, s.threads>>),
      Stage("zip", <<>>)>>
    \o ShuffleStage(s)
    \o BatchStage(s)
    \o <<Stage("prefetch", <<s.prefetch>>)>>

Call__(s) ==
    _process(s, Stage("TextLineDataset", <<s.texts>>), Stage("TextLineDataset", <<s.targets>>))

StageOps(ds) == [i \in 1..Len(ds) |-> ds[i].op]
StageIndex(ds, op) == CHOOSE i \in 1..Len(ds) : ds[i].op = op
HasStage(ds, op) == \E i \in 1..Len(ds) : ds[i].op = op
StageParams(ds, op) == ds[StageIndex(ds, op)].params

-----------------------------------------------------------------------------
(* Arguments callers pass *)

TextsArgs == {PyStr(<<"a", "b">>), PyList(<<PyStr(<<"a">>), PyStr(<<"a", "b">>)>>)}
TargetsArgs == {PyStr(<<"c">>), PyStr(<<"c", "d">>), PyList(<<PyStr(<<"c", "d">>)>>)}
WordTableArgs == {WordPath, None, PyList(<<WordPath>>)}
TagTableArgs == {TagPath, PyInt(1)}
BatchSizeArgs == {Omitted, PyInt(2)}
ShuffleArgs == {Omitted, PyBool(FALSE)}
BufferSizeArgs == {Omitted, None, PyInt(0), PyInt(2)}
SeedArgs == {Omitted, PyInt(7)}

CtorArgs ==
    {[texts |-> tx, targets |-> tg, word_table |-> wt, tag_table |-> tt,
      batch_size |-> bs, shuffle |-> sh, buffer_size |-> bf, seed |-> sd,
      threads |-> Omitted, prefetch |-> Omitted] :
        tx \in TextsArgs, tg \in TargetsArgs, wt \in WordTableArgs, tt \in TagTableArgs,
        bs \in BatchSizeArgs, sh \in ShuffleArgs, bf \in BufferSizeArgs, sd \in SeedArgs}

NoBatch == [tokens |-> <<>>, tags |-> <<>>, from |-> <<>>]
NoLookup == [key |-> <<>>, id |-> -1]
NoTableArg == [file |-> Unset, num_oov_buckets |-> 0]

-----------------------------------------------------------------------------
(* Construction and the call of the loader *)

Init ==
    /\ fs \in FileSystems
    /\ pc = "new"
    /\ args = NoArgs
    /\ self = NoSelf
    /\ raised = NoError
    /\ built = <<>>
    /\ dataset = <<>>
    /\ srcCount = 0
    /\ exhausted = FALSE
    /\ shuffleBuf = <<>>
    /\ batchAcc = <<>>
    /\ prefetchQ = <<>>
    /\ delivered = NoBatch
    /\ table = NoTable
    /\ tableArg = NoTableArg
    /\ lookedUp = NoLookup

Construct(a) ==
    /\ pc = "new"
    /\ LET r == Init__(a, fs)
       IN /\ args' = a
          /\ self' = r.self
          /\ raised' = r.raised
          /\ built' = r.built
          /\ pc' = IF r.raised = NoError THEN "constructed" ELSE "raised"
    /\ UNCHANGED <<fs, dataset, iterVars, tableVars>>

Call ==
    /\ pc \in {"constructed", "called"}
    /\ dataset' = Call__(self)
    /\ pc' = "called"
    /\ UNCHANGED <<fs, ctorVars, iterVars, tableVars>>

Next ==
    \/ \E a \in CtorArgs : Construct(a)
    \/ Call

Spec == Init /\ [][Next]_vars

-----------------------------------------------------------------------------
(* Running the pipeline: the elements the stages produce *)

\* tokenization of a line: the non-empty runs of characters between spaces
RECURSIVE Split(_)
Split(line) ==
    IF line = <<>> THEN <<>>
    ELSE IF Head(line) = " " THEN Split(Tail(line))
    ELSE LET rest == Split(Tail(line))
         IN IF Len(line) > 1 /\ line[2] # " "
            THEN <<(<<Head(line)>> \o Head(rest))>> \o Tail(rest)
            ELSE <<(<<Head(line)>>)>> \o rest

\* process_text(sent, word_table): the ids of the line's tokens
process_text(sent, word_table) ==
    LET tokens == Split(sent)
    IN [i \in 1..Len(tokens) |-> Lookup(word_table, tokens[i])]

\* lines of the text files
TextLines == {<<"x">>, <<"z", " ", "y">>, <<"y", " ", "x", " ", "z">>}

\* process_target(inputs, tag_table): a tensor of rank 2 (padded_shapes,
\* line 112); which one is left open
TargetTensors == {<< <<1>> >>, << <<1, 2>> >>, << <<2>>, <<1>> >>}

process_target(sent, tag_table) == TargetTensors

Max(S) == CHOOSE m \in S : \A n \in S : n <= m

Rows(m) == Len(m)
Cols(m) == IF Len(m) = 0 THEN 0 ELSE Len(m[1])

\* padded_batch: every component is padded, after its own values, up to the
\* largest size of that component in the batch
PadTo(seq, n, value) == [i \in 1..n |-> IF i <= Len(seq) THEN seq[i] ELSE value]

PadMatrix(m, r, c, value) ==
    [i \in 1..r |-> [j \in 1..c |-> IF i <= Rows(m) /\ j <= Cols(m) THEN m[i][j] ELSE value]]

LongestLine == Max({Len(Split(l)) : l \in TextLines})

PaddedBatchToLongestLine(elems, padding_values) ==
    LET n == LongestLine
        r == Max({Rows(elems[k].target) : k \in 1..Len(elems)})
        c == Max({Cols(elems[k].target) : k \in 1..Len(elems)})
    IN [tokens |-> [k \in 1..Len(elems) |-> PadTo(elems[k].text, n, padding_values[1])],
        tags |-> [k \in 1..Len(elems) |-> PadMatrix(elems[k].target, r, c, padding_values[2])],
        from |-> elems]

PaddedBatch(elems, padding_values) ==
    LET n == Max({Len(elems[k].text) : k \in 1..Len(elems)})
        r == Max({Rows(elems[k].target) : k \in 1..Len(elems)})
        c == Max({Cols(elems[k].target) : k \in 1..Len(elems)})
    IN [tokens |-> [k \in 1..Len(elems) |-> PadTo(elems[k].text, n, padding_values[1])],
        tags |-> [k \in 1..Len(elems) |-> PadMatrix(elems[k].target, r, c, padding_values[2])],
        from |-> elems]

\* what the stages of the pipeline were given
ShuffleOn == HasStage(dataset, "shuffle")
ShuffleBufferSize == StageParams(dataset, "shuffle")[1].v
BatchSize == StageParams(dataset, "padded_batch")[1].v
PaddingValues == StageParams(dataset, "padded_batch")[3]
PrefetchDepth == StageParams(dataset, "prefetch")[1].v
TextTable == dataset[3].params[2]
TagTable == dataset[4].params[2]

RemoveAt(seq, i) == [k \in 1..(Len(seq) - 1) |-> IF k < i THEN seq[k] ELSE seq[k + 1]]

\* zip of the two mapped streams yields its next element
ReadElement(line, tagline) ==
    /\ pc = "called"
    /\ ~exhausted
    /\ srcCount < MaxLines
    /\ \E tensor \in process_target(tagline, TagTable) :
        LET elem == [text |-> process_text(line, TextTable), target |-> tensor]
        IN IF ShuffleOn
           THEN /\ Len(shuffleBuf) < ShuffleBufferSize
                /\ shuffleBuf' = Append(shuffleBuf, elem)
                /\ UNCHANGED batchAcc
           ELSE /\ Len(batchAcc) < BatchSize
                /\ batchAcc' = Append(batchAcc, elem)
                /\ UNCHANGED shuffleBuf
    /\ srcCount' = srcCount + 1
    /\ UNCHANGED <<fs, pc, ctorVars, dataset, exhausted, prefetchQ, delivered, tableVars>>

\* one of the two line streams ends, and so does their zip
EndOfInput ==
    /\ pc = "called"
    /\ ~exhausted
    /\ exhausted' = TRUE
    /\ UNCHANGED <<fs, pc, ctorVars, dataset, srcCount, shuffleBuf, batchAcc, prefetchQ,
                   delivered, tableVars>>

\* shuffle hands on an element of its buffer, once the buffer is full or the
\* input has ended
ShuffleEmit ==
    /\ pc = "called"
    /\ ShuffleOn
    /\ Len(shuffleBuf) > 0
    /\ Len(shuffleBuf) = ShuffleBufferSize \/ exhausted
    /\ Len(batchAcc) < BatchSize
    /\ \E i \in 1..Len(shuffleBuf) :
        /\ batchAcc' = Append(batchAcc, shuffleBuf[i])
        /\ shuffleBuf' = RemoveAt(shuffleBuf, i)
    /\ UNCHANGED <<fs, pc, ctorVars, dataset, srcCount, exhausted, prefetchQ, delivered,
                   tableVars>>

\* padded_batch closes a batch: batch_size elements, or the last ones
BatchEmit ==
    /\ pc = "called"
    /\ Len(batchAcc) > 0
    /\ Len(batchAcc) = BatchSize \/ (exhausted /\ Len(shuffleBuf) = 0)
    /\ Len(prefetchQ) < PrefetchDepth
    /\ prefetchQ' = Append(prefetchQ, PaddedBatch(batchAcc, PaddingValues))
    /\ batchAcc' = <<>>
    /\ UNCHANGED <<fs, pc, ctorVars, dataset, srcCount, exhausted, shuffleBuf, delivered,
                   tableVars>>

\* the training loop takes the next batch
Consume ==
    /\ pc = "called"
    /\ Len(prefetchQ) > 0
    /\ delivered' = Head(prefetchQ)
    /\ prefetchQ' = Tail(prefetchQ)
    /\ UNCHANGED <<fs, pc, ctorVars, dataset, srcCount, exhausted, shuffleBuf, batchAcc,
                   tableVars>>

\* loaders constructed from readable vocabulary files and called
IterFs == [p \in VocabPaths |->
            IF p = WordPath THEN File(<< <<"x">>, <<"y">> >>) ELSE File(<< <<"x">> >>)]

IterArgs ==
    {[texts |-> PyList(<<PyStr(<<"a">>)>>), targets |-> PyList(<<PyStr(<<"c">>)>>),
      word_table |-> WordPath, tag_table |-> TagPath,
      batch_size |-> bs, shuffle |-> sh, buffer_size |-> bf, seed |-> Omitted,
      threads |-> Omitted, prefetch |-> Omitted] :
        bs \in BatchSizeArgs, sh \in ShuffleArgs, bf \in {Omitted, PyInt(2)}}

IterInit ==
    /\ fs = IterFs
    /\ pc = "called"
    /\ args \in IterArgs
    /\ self = Init__(args, fs).self
    /\ raised = Init__(args, fs).raised
    /\ built = Init__(args, fs).built
    /\ dataset = Call__(self)
    /\ srcCount = 0
    /\ exhausted = FALSE
    /\ shuffleBuf = <<>>
    /\ batchAcc = <<>>
    /\ prefetchQ = <<>>
    /\ delivered = NoBatch
    /\ table = NoTable
    /\ tableArg = NoTableArg
    /\ lookedUp = NoLookup

IterNext ==
    \/ \E line \in TextLines, tagline \in TextLines : ReadElement(line, tagline)
    \/ EndOfInput
    \/ ShuffleEmit
    \/ BatchEmit
    \/ Consume

IterSpec == IterInit /\ [][IterNext]_vars

-----------------------------------------------------------------------------
(* Direct calls of _create_lookup_table, and lookups in the table returned *)

NumOovArgs == {Omitted} \cup {PyInt(n) : n \in 1..MaxOov}

LookupKeys == Words \cup {<<"z">>, <<"x", " ", "y">>, <<"x", "y">>, <<>>}

TableInit ==
    /\ fs \in FileSystems
    /\ pc = "table"
    /\ args = NoArgs
    /\ self = NoSelf
    /\ raised = NoError
    /\ built = <<>>
    /\ dataset = <<>>
    /\ srcCount = 0
    /\ exhausted = FALSE
    /\ shuffleBuf = <<>>
    /\ batchAcc = <<>>
    /\ prefetchQ = <<>>
    /\ delivered = NoBatch
    /\ table = NoTable
    /\ tableArg = NoTableArg
    /\ lookedUp = NoLookup

CreateLookupTable(path, n) ==
    /\ pc = "table"
    /\ Loadable(FileOf(fs, path))
    /\ table' = _create_lookup_table(FileOf(fs, path), Bind(n, PyInt(DefaultNumOovBuckets)).v)
    /\ tableArg' = [file |-> path, num_oov_buckets |-> Bind(n, PyInt(DefaultNumOovBuckets)).v]
    /\ lookedUp' = NoLookup
    /\ UNCHANGED <<fs, pc, ctorVars, dataset, iterVars>>

TableLookup(key) ==
    /\ pc = "table"
    /\ table # NoTable
    /\ lookedUp' = [key |-> key, id |-> Lookup(table, key)]
    /\ UNCHANGED <<fs, pc, ctorVars, dataset, iterVars, table, tableArg>>

TableNext ==
    \/ \E path \in VocabPaths, n \in NumOovArgs : CreateLookupTable(path, n)
    \/ \E key \in LookupKeys : TableLookup(key)

TableSpec == TableInit /\ [][TableNext]_vars

-----------------------------------------------------------------------------
(* Properties of the constructor *)

Constructed == pc \in {"constructed", "called"}
CtorReturned == pc \in {"constructed", "called", "raised"}

\* C1: a word_table or tag_table argument that is not a str makes the
\* constructor fail with an assertion error whatever the other arguments are
\* (stated here for a readable word vocabulary file), the word_table check
\* coming first, and no lookup table is built from an argument that fails its
\* check.
C1_NonStrTableRaisesAssertion ==
    (/\ CtorReturned
     /\ \/ ~IsStr(args.word_table)
        \/ (~IsStr(args.tag_table) /\ Loadable(FileOf(fs, args.word_table))))
    => /\ raised.type = "AssertionError"
       /\ ~IsStr(args.word_table) => raised.msg = "Word table must be string type"
       /\ \A i \in 1..Len(built) : IsStr(built[i])

\* C2: a single str path given for texts or for targets is stored as the
\* one-element list of that path, a list of paths is stored unchanged, and the
\* construction succeeds in both cases (the vocabulary arguments being valid).
StoredPaths(arg) == IF IsStr(arg) THEN PyList(<<arg>>) ELSE arg

C2_PathsStoredAsList ==
    (/\ CtorReturned
     /\ IsStr(args.word_table) /\ Loadable(FileOf(fs, args.word_table))
     /\ IsStr(args.tag_table) /\ Loadable(FileOf(fs, args.tag_table)))
    => /\ pc # "raised"
       /\ self.texts = StoredPaths(args.texts)
       /\ self.targets = StoredPaths(args.targets)

\* C6: when the caller passes no buffer_size, the shuffle buffer size stored
\* is three times the batch size (48 for the default batch size of 16).
C6_DefaultBufferIsTripleBatch ==
    (Constructed /\ args.buffer_size = Omitted)
    => /\ self.buffer_size = PyInt(3 * self.batch_size.v)
       /\ args.batch_size = Omitted => self.buffer_size = PyInt(48)

\* C7: after a successful construction self.buffer_size is the buffer_size
\* argument when that is a non-zero integer and 3 * batch_size when it is None
\* or 0; the shuffle stage, when present, is given self.buffer_size and
\* self.seed.
C7_BufferSizeStored ==
    Constructed =>
       /\ (args.buffer_size.t = "int" /\ args.buffer_size.v # 0)
            => self.buffer_size = args.buffer_size
       /\ (args.buffer_size = None \/ args.buffer_size = PyInt(0))
            => self.buffer_size = PyInt(3 * self.batch_size.v)
       /\ (pc = "called" /\ HasStage(dataset, "shuffle"))
            => StageParams(dataset, "shuffle") = <<self.buffer_size, self.seed>>

C7_Witness ==
    /\ pc = "called"
    /\ args.buffer_size = PyInt(0)
    /\ args.batch_size = PyInt(2)
    /\ args.seed = PyInt(7)
    /\ HasStage(dataset, "shuffle")
    /\ StageParams(dataset, "shuffle") = <<PyInt(6), PyInt(7)>>

-----------------------------------------------------------------------------
(* Properties of the pipeline *)

\* C3: every call applies the stages in the order map (text lines, then target
\* lines), zip, shuffle, padded-batch, prefetch; the shuffle stage is there iff
\* the shuffle flag is true, after zip and before padded-batch; prefetch is
\* the last stage.
Once(ds, op) == Cardinality({i \in 1..Len(ds) : ds[i].op = op}) = 1

C3_StageOrder ==
    pc = "called" =>
       /\ Once(dataset, "zip") /\ Once(dataset, "padded_batch") /\ Once(dataset, "prefetch")
       /\ Cardinality({i \in 1..Len(dataset) : dataset[i].op = "map"}) = 2
       /\ \A i \in 1..Len(dataset) :
            dataset[i].op = "map" => i < StageIndex(dataset, "zip")
       /\ \E i, j \in 1..Len(dataset) :
            /\ i < j
            /\ dataset[i].op = "map" /\ dataset[i].params[1] = "process_text"
            /\ dataset[j].op = "map" /\ dataset[j].params[1] = "process_target"
       /\ HasStage(dataset, "shuffle") <=> Truthy(self.shuffle)
       /\ HasStage(dataset, "shuffle") =>
            /\ Once(dataset, "shuffle")
            /\ StageIndex(dataset, "zip") < StageIndex(dataset, "shuffle")
            /\ StageIndex(dataset, "shuffle") < StageIndex(dataset, "padded_batch")
       /\ StageIndex(dataset, "zip") < StageIndex(dataset, "padded_batch")
       /\ StageIndex(dataset, "padded_batch") < StageIndex(dataset, "prefetch")
       /\ dataset[Len(dataset)].op = "prefetch"

C3_Witness ==
    /\ pc = "called"
    /\ Truthy(self.shuffle)
    /\ StageOps(dataset) = <<"TextLineDataset", "TextLineDataset", "map", "map", "zip",
                             "shuffle", "padded_batch", "prefetch">>

\* C5: in every batch produced all token sequences have the length of the
\* longest token sequence of that batch, each keeps its ids as a prefix and is
\* extended by padding values only; the tag tensors of the batch likewise, in
\* both of their dimensions.
Batches ==
    {prefetchQ[i] : i \in 1..Len(prefetchQ)} \cup (IF delivered = NoBatch THEN {} ELSE {delivered})

WellPadded(b) ==
    LET n == Len(b.from)
        longest == Max({Len(b.from[k].text) : k \in 1..n})
        rows == Max({Rows(b.from[k].target) : k \in 1..n})
        cols == Max({Cols(b.from[k].target) : k \in 1..n})
    IN /\ Len(b.tokens) = n
       /\ Len(b.tags) = n
       /\ \A k \in 1..n :
            /\ Len(b.tokens[k]) = longest
            /\ \A i \in 1..longest :
                 b.tokens[k][i] =
                    IF i <= Len(b.from[k].text) THEN b.from[k].text[i] ELSE PaddingValue
            /\ Rows(b.tags[k]) = rows
            /\ \A i \in 1..rows :
                 /\ Len(b.tags[k][i]) = cols
                 /\ \A j \in 1..cols :
                      b.tags[k][i][j] =
                         IF i <= Rows(b.from[k].target) /\ j <= Cols(b.from[k].target)
                         THEN b.from[k].target[i][j] ELSE PaddingValue

C5_BatchPaddedToItsLongest == \A b \in Batches : WellPadded(b)

C5_Witness ==
    /\ delivered # NoBatch
    /\ Len(delivered.from) = 2
    /\ Len(delivered.from[1].text) = 1
    /\ Len(delivered.from[2].text) = 2
    /\ delivered.tokens[1] = <<delivered.from[1].text[1], PaddingValue>>
    /\ Len(delivered.tokens[2]) < LongestLine
    /\ Rows(delivered.from[1].target) # Rows(delivered.from[2].target)

-----------------------------------------------------------------------------
(* Properties of the lookup table *)

\* C4: for a vocabulary file of N lines the table maps the whole content of
\* line i (0-based) to i, and every string that is not a line of the file to
\* an id >= N; every id lies in 0 .. N + (number of OOV buckets) - 1.
C4_LookupIds ==
    lookedUp # NoLookup =>
        LET lines == FileOf(fs, tableArg.file).lines
            N == Len(lines)
        IN /\ \A i \in 1..N : lookedUp.key = lines[i] => lookedUp.id = i - 1
           /\ (\A i \in 1..N : lookedUp.key # lines[i]) => lookedUp.id >= N
           /\ lookedUp.id \in 0..(N + table.num_oov - 1)

C4_Witness ==
    /\ lookedUp # NoLookup
    /\ Len(FileOf(fs, tableArg.file).lines) = 2
    /\ lookedUp.key = FileOf(fs, tableArg.file).lines[2]
    /\ lookedUp.id = 1

\* C8: _create_lookup_table(file, num_oov_buckets = n) returns a table with
\* exactly n out-of-vocabulary buckets, for every n >= 1.
C8_TableHasRequestedBuckets ==
    table # NoTable => table.num_oov = tableArg.num_oov_buckets

====
